---------------------------- MODULE Spec2Model ----------------------------
(***************************************************************************)
(* Model of api/metadata_handler.go of wpt.fyi:                            *)
(*   - filterMetadata, the pure link filter            (SpecFilter)        *)
(*   - apiMetadataTriageHandler, the triage pipeline   (SpecTriage)        *)
(*   - apiMetadataHandler, cacheKey and                                    *)
(*     MetadataHandler.ServeHTTP behind the caching handler   (Spec)       *)
(*   - the same over the requests whose keys meet          (SpecKeys)      *)
(*   - two requests with one key served at the same time   (SpecRace)      *)
(*   - both handlers serving requests in turn              (SpecServe)     *)
(* Strings that are only compared or concatenated (URLs, bodies, cache     *)
(* keys) are TLA+ strings; strings that are searched (link URLs, link      *)
(* patterns) are sequences of characters.                                  *)
(***************************************************************************)
EXTENDS Integers, Sequences, FiniteSets, TLC

VARIABLES
    cache,      \* Spec: the memcache entries, by key
    upstream,   \* Spec: what the metadata archive holds now
    tlast,      \* SpecTriage: the last triage request, the calls it made, its response
    commits,    \* SpecTriage: the changes submitted to the hosting API, in order
    fin,        \* SpecFilter: the arguments handed to filterMetadata
    fout,       \* SpecFilter: what filterMetadata returned for them
    inflight    \* SpecRace: the requests being served, each at its step

vars == <<cache, upstream, tlast, commits, fin, fout, inflight>>

\* A Go pointer: nil, or a pointer to x.
Nil == <<>>
Ptr(x) == <<x>>

\* net/http status codes.
StatusOK == 200
StatusCreated == 201
StatusBadRequest == 400
StatusInternalServerError == 500

(***************************************************************************)
(* Bounds of the link-filter inputs.                                       *)
(***************************************************************************)
MaxUrlLen == 2          \* longest link URL and longest pattern, in characters
MaxTotalLinks == 2      \* most links in one metadata mapping, over all tests

Alphabet == {"a", "b"}
Tests == {"t1", "t2"}

\* Every character string of at most n characters.
Strs(n) == UNION {[1..k -> Alphabet] : k \in 0..n}

\* shared.MetadataLink: the URL is the one field the handler reads.
Link(u) == [URL |-> u]

\* Every list of at most n links.
LinkLists(n) == UNION {[1..k -> {Link(u) : u \in Strs(MaxUrlLen)}] : k \in 0..n}

\* Every shared.MetadataResults over exactly the tests `tests` holding at most
\* `budget` links in all.
RECURSIVE MetadataOver(_, _)
MetadataOver(tests, budget) ==
    IF tests = {} THEN {<<>>}
    ELSE LET t == CHOOSE x \in tests : TRUE
         IN  UNION {{(t :> l) @@ m : m \in MetadataOver(tests \ {t}, budget - Len(l))}
                     : l \in LinkLists(budget)}

AllMetadata == UNION {MetadataOver(D, MaxTotalLinks) : D \in SUBSET Tests}

(***************************************************************************)
(* strings.Contains(s, substr): some window of s of substr's length equals *)
(* substr; the empty substr is found in every s, the empty s included.     *)
(***************************************************************************)
Contains(s, substr) ==
    \E i \in 0..(Len(s) - Len(substr)) : SubSeq(s, i + 1, i + Len(substr)) = substr

\* The inner loop of filterMetadata from link i on: TRUE at the first link
\* whose URL contains the pattern (the break), FALSE when the links run out.
RECURSIVE AnyLinkContains(_, _, _)
AnyLinkContains(links, pattern, i) ==
    IF i > Len(links) THEN FALSE
    ELSE IF Contains(links[i].URL, pattern) THEN TRUE
    ELSE AnyLinkContains(links, pattern, i + 1)

\* The links of `links` whose URL contains the pattern, in order.
RECURSIVE MatchingLinks(_, _)
MatchingLinks(links, pattern) ==
    IF links = <<>> THEN <<>>
    ELSE (IF Contains(Head(links).URL, pattern) THEN <<Head(links)>> ELSE <<>>)
         \o MatchingLinks(Tail(links), pattern)

\* filterMetadata with res[test] assigned the matching links only.
filterMetadataMatchingOnly(linkQuery, metadata) ==
    LET kept == {test \in DOMAIN metadata :
                    AnyLinkContains(metadata[test], linkQuery.Pattern, 1)}
    IN  [test \in kept |-> MatchingLinks(metadata[test], linkQuery.Pattern)]

\* The links of `links` before the first one whose URL contains the pattern.
RECURSIVE LinksBeforeMatch(_, _)
LinksBeforeMatch(links, pattern) ==
    IF links = <<>> \/ Contains(Head(links).URL, pattern) THEN <<>>
    ELSE <<Head(links)>> \o LinksBeforeMatch(Tail(links), pattern)

\* filterMetadata with res[test] assigned links[:i], the links before the
\* first match, instead of links.
filterMetadataSliced(linkQuery, metadata) ==
    LET kept == {test \in DOMAIN metadata :
                    AnyLinkContains(metadata[test], linkQuery.Pattern, 1)}
    IN  [test \in kept |-> LinksBeforeMatch(metadata[test], linkQuery.Pattern)]

\* filterMetadata: res[test] = links for every test one of whose links has a
\* URL containing linkQuery.Pattern.
filterMetadata(linkQuery, metadata) ==
    LET kept == {test \in DOMAIN metadata :
                    AnyLinkContains(metadata[test], linkQuery.Pattern, 1)}
    IN  [test \in kept |-> metadata[test]]

(***************************************************************************)
(* apiMetadataTriageHandler.                                               *)
(***************************************************************************)
MaxCommits == 2         \* most changes the hosting API accepts in one run

Methods == {"GET", "POST", "PATCH"}
ContentTypes == {"application/json", "text/plain"}

\* json.Unmarshal(data, &metadata) into shared.MetadataResults: the decoded
\* value and the error text, "" for none.
Unmarshal(data) ==
    CASE data = "{}" -> [value |-> <<>>, err |-> ""]
      [] data = "{\"t1\":[{\"url\":\"a\"}]}" ->
            [value |-> ("t1" :> <<Link(<<"a">>)>>), err |-> ""]
      [] data = "" -> [value |-> <<>>, err |-> "unexpected end of JSON input"]
      [] OTHER -> [value |-> <<>>,
                   err |-> "invalid character 'x' looking for beginning of value"]

TriageBodies == {"{}", "{\"t1\":[{\"url\":\"a\"}]}", "", "x"}

\* r.Body: the bytes the client sent, and whether reading or closing it fails.
TriageStreams ==
    [data : TriageBodies, consumed : {FALSE}, readFails : BOOLEAN,
     closeFails : BOOLEAN]

\* ioutil.ReadAll(r.Body): the bytes not read yet, the error, and the body
\* left read to its end. r.Body.Close().
ReadAll(body) ==
    [data |-> IF body.readFails \/ body.consumed THEN "" ELSE body.data,
     err |-> body.readFails,
     body |-> [body EXCEPT !.consumed = TRUE]]
Close(body) == [err |-> body.closeFails]

TriageRequests == [Method : Methods, ContentType : ContentTypes, Body : TriageStreams]

\* shared.User, and what shared.GetUserFromCookie can return: the user and
\* the stored access token, either of them nil.
Alice == [GitHubHandle |-> "alice", GithuhEmail |-> "alice@example.com"]
Bob == [GitHubHandle |-> "bob", GithuhEmail |-> "bob@example.com"]
Sessions ==
    { [user |-> Nil, token |-> Nil],
      [user |-> Ptr(Alice), token |-> Nil],
      [user |-> Nil, token |-> Ptr("token-alice")],
      [user |-> Ptr(Alice), token |-> Ptr("token-alice")],
      [user |-> Ptr(Bob), token |-> Ptr("token-bob")] }

\* The token of the secret "github-wpt-fyi-bot-token" (getWPTFYIGithubBot).
BotToken == "github-wpt-fyi-bot-token"

\* What a call of the hosting API client returns: an error, or a response
\* with a status code. The handler reads the status only when err is nil.
CheckStatuses == {200, 204, 404}
CheckOutcomes ==
    {[err |-> TRUE, StatusCode |-> 0]} \cup
    {[err |-> FALSE, StatusCode |-> s] : s \in CheckStatuses}

\* One call of an external collaborator: the operation, the credential it was
\* made with ("" for none) and what it returned.
Call(op, cred, result) == [op |-> op, cred |-> cred, result |-> result]
OutcomeText(res) == IF res.err THEN "err" ELSE ToString(res.StatusCode)

NoTriage ==
    [handled |-> FALSE, r |-> [Method |-> "", ContentType |-> "",
                               Body |-> [data |-> "", consumed |-> FALSE,
                                         readFails |-> FALSE,
                                         closeFails |-> FALSE]],
     session |-> Nil, calls |-> <<>>, submit |-> Nil, status |-> 0, message |-> ""]

\* http.Error(w, message, status) and return, after the calls made so far.
TriageReply(r, session, calls, status, message) ==
    /\ tlast' = [handled |-> TRUE, r |-> r, session |-> session, calls |-> calls,
                 submit |-> Nil, status |-> status, message |-> message]
    /\ UNCHANGED commits

\* The conditions of the handler's early returns.
MethodRejectedGetOnly(r) == r.Method = "GET"
MethodRejected(r) == r.Method # "PATCH"
ContentTypeRejected(contentType) == contentType # "application/json"
DecodeFailedIgnored(err) == FALSE
DecodeFailed(err) == err # ""
NotLoggedIn(user, token) == user = Nil \/ token = Nil
TokenRejectedOnClientError(res) == res.StatusCode >= StatusBadRequest
TokenRejected(res) == res.StatusCode # StatusOK
MembershipRejectedOnNotFound(res) == res.StatusCode = 404
MembershipRejected(res) == res.StatusCode # StatusOK
SecretFailedIgnored(err) == FALSE
SecretFailed(err) == err
BotClientFailedIgnored(err) == FALSE
BotClientFailed(err) == err
TriageFailedIgnored(err) == FALSE
TriageFailed(err) == err

\* metadataGithub with the author's name and e-mail address taken from the
\* same field of the user.
metadataGithubOneField(githubBotClient, user) ==
    [githubClient |-> githubBotClient, authorName |-> user.GitHubHandle,
     authorEmail |-> user.GitHubHandle]

\* metadataGithub{githubClient: githubBotClient, authorName: user.GitHubHandle,
\* authorEmail: user.GithuhEmail}.
metadataGithub(githubBotClient, user) ==
    [githubClient |-> githubBotClient, authorName |-> user.GitHubHandle,
     authorEmail |-> user.GithuhEmail]

\* tm.triage(metadata) with the bot's client and the user as the author: the
\* change is committed when it returns no error.
Triage(r, session, calls, metadata, user, botCred) ==
    \E failed \in BOOLEAN :
        LET git == metadataGithub(botCred, user)
            submit == [cred |-> git.githubClient, authorName |-> git.authorName,
                       authorEmail |-> git.authorEmail, metadata |-> metadata]
            done == calls \o <<Call("triage", botCred, IF failed THEN "err" ELSE "ok")>>
        IN  /\ commits' = IF failed THEN commits ELSE Append(commits, submit)
            /\ IF TriageFailed(failed)
               THEN tlast' = [handled |-> TRUE, r |-> r, session |-> Ptr(session),
                              calls |-> done,
                              submit |-> Ptr(submit),
                              status |-> StatusInternalServerError,
                              message |-> "Unable to triage metadata: err"]
               ELSE tlast' = [handled |-> TRUE, r |-> r, session |-> Ptr(session),
                              calls |-> done,
                              submit |-> Ptr(submit),
                              status |-> StatusCreated, message |-> ""]

\* The handler from the session lookup on (lines 85-144), metadata decoded.
Authorize(r, metadata) ==
    \E session \in Sessions :
        LET c1 == <<Call("GetUserFromCookie", "",
                         IF session.user = Nil \/ session.token = Nil
                         THEN "absent" ELSE "present")>>
        IN
        IF NotLoggedIn(session.user, session.token)
        THEN TriageReply(r, Ptr(session), c1, StatusBadRequest, "User is not logged in")
        ELSE
        LET user == session.user[1]
            token == session.token[1]
        IN
        \E secretFails \in BOOLEAN :
        LET c2 == c1 \o <<Call("GetSecret", "", IF secretFails THEN "err" ELSE "ok")>> IN
        IF SecretFailed(secretFails)
        THEN TriageReply(r, Ptr(session), c2, StatusInternalServerError,
                         "Failed to get github-oauth-client-id secret: err")
        ELSE
        \E check \in CheckOutcomes :
        LET c3 == c2 \o <<Call("Authorizations.Check", token, OutcomeText(check))>> IN
        IF check.err
        THEN TriageReply(r, Ptr(session), c3, StatusInternalServerError,
                         "Fail to validate user token err")
        ELSE IF TokenRejected(check)
        THEN TriageReply(r, Ptr(session), c3, StatusBadRequest,
                         "User token invalid; please log in again. ")
        ELSE
        \E member \in CheckOutcomes :
        LET c4 == c3 \o <<Call("Organizations.GetOrgMembership", token,
                               OutcomeText(member))>> IN
        IF member.err
        THEN TriageReply(r, Ptr(session), c4, StatusInternalServerError,
                         "Fail to validate web-platform-tests membership: err")
        ELSE IF MembershipRejected(member)
        THEN TriageReply(r, Ptr(session), c4, StatusBadRequest,
                         "User is not a part of web-platform-tests")
        ELSE
        \E botFails \in BOOLEAN :
        LET c5 == c4 \o <<Call("getWPTFYIGithubBot", "",
                               IF botFails THEN "err" ELSE "ok")>> IN
        IF BotClientFailed(botFails)
        THEN TriageReply(r, Ptr(session), c5, StatusInternalServerError,
                         "Unable to get Github Client: err")
        ELSE Triage(r, session, c5, metadata, user, BotToken)

apiMetadataTriageHandler(r) ==
    IF MethodRejected(r)
    THEN TriageReply(r, Nil, <<>>, StatusBadRequest,
                     "Invalid HTTP method; only accpet PATCH request")
    ELSE IF ContentTypeRejected(r.ContentType)
    THEN TriageReply(r, Nil, <<>>, StatusBadRequest,
                     "Invalid content-type: %s" \o r.ContentType)
    ELSE
    LET read == ReadAll(r.Body) IN
    IF read.err
    THEN TriageReply(r, Nil, <<>>, StatusInternalServerError,
                     "Failed to read PATCH request body")
    ELSE IF Close(r.Body).err
    THEN TriageReply(r, Nil, <<>>, StatusInternalServerError,
                     "Failed to finish reading request body")
    ELSE
    LET decoded == Unmarshal(read.data) IN
    IF DecodeFailed(decoded.err)
    THEN TriageReply(r, Nil, <<>>, StatusBadRequest,
                     "Failed to parse JSON: " \o decoded.err)
    ELSE Authorize(r, decoded.value)

\* One PATCH /api/metadata/triage request, or any other request routed to
\* the handler, served from start to response.
TriageRequest ==
    /\ Len(commits) < MaxCommits
    /\ \E r \in TriageRequests : apiMetadataTriageHandler(r)
    /\ UNCHANGED <<cache, upstream, fin, fout, inflight>>

NoFilterInput == [linkQuery |-> [Pattern |-> <<>>], metadata |-> <<>>]
NoFilterOutput == [applied |-> FALSE, res |-> <<>>, again |-> <<>>]
NoneInFlight == [proc |-> <<>>, writes |-> <<>>]

(***************************************************************************)
(* apiMetadataHandler: MetadataHandler.ServeHTTP behind the caching        *)
(* handler, with cacheKey deriving the keys.                               *)
(***************************************************************************)
\* An expiry one minute short of the handler's.
TTLMinutesShort == 5 - 1

\* The expiry of the memcache entries, in minutes (5*time.Minute).
TTLMinutes == 5

\* The request URLs (r.URL.String()): with a product and an empty trailing
\* parameter, the same with a parameter value that starts with '#', without
\* a product, with a product that does not parse; with the product as the
\* last parameter, and the same with '#' and more after the product's name,
\* which is then no product.
URLChrome == "/api/metadata?product=chrome&q="
URLChromeHash == "/api/metadata?product=chrome&q=#{\"exists\":[{\"link\":\"a\"}]}"
URLNoProduct == "/api/metadata"
URLBadProduct == "/api/metadata?product=["
URLChromeOnly == "/api/metadata?product=chrome"
URLChromeOnlyHash == "/api/metadata?product=chrome#{\"exists\":[{\"link\":\"a\"}]}"

\* The request bodies: a link query for "a", one for "b", a query whose one
\* argument is no link atom, a query without arguments, a query with two
\* link arguments, and no body.
BodyLinkA == "{\"exists\":[{\"link\":\"a\"}]}"
BodyLinkB == "{\"exists\":[{\"link\":\"b\"}]}"
BodyNonLink == "{\"exists\":[{\"pattern\":\"a\"}]}"
BodyNoArgs == "{\"exists\":[]}"
BodyTwoLinks == "{\"exists\":[{\"link\":\"a\"},{\"link\":\"b\"}]}"
QueryBodies == {BodyLinkA, BodyLinkB, BodyNonLink, BodyNoArgs, BodyTwoLinks, ""}

\* bytes.NewBuffer(data) behind ioutil.NopCloser: unread, and neither reading
\* nor closing it fails.
NewBuffer(data) ==
    [data |-> data, consumed |-> FALSE, readFails |-> FALSE, closeFails |-> FALSE]

\* The requests routed to apiMetadataHandler.
MetadataRequests ==
    [Method : {"GET"},
     URL : {URLChrome, URLChromeHash, URLNoProduct, URLBadProduct},
     Body : {NewBuffer(""), NewBuffer(BodyLinkA)}]
    \cup
    [Method : {"POST"}, URL : {URLChrome, URLNoProduct},
     Body : [data : QueryBodies, consumed : {FALSE}, readFails : BOOLEAN,
             closeFails : {FALSE}]]
    \cup
    [Method : {"PUT"}, URL : {URLChrome}, Body : {NewBuffer(BodyLinkA)}]

\* The requests whose keys meet: a GET whose URL is the URL of a POST, '#',
\* and the body of that POST, next to requests without a usable product.
KeyRequests ==
    [Method : {"GET"},
     URL : {URLChromeHash, URLChromeOnlyHash, URLNoProduct, URLBadProduct},
     Body : {NewBuffer("")}]
    \cup
    [Method : {"POST"}, URL : {URLChrome, URLChromeOnly, URLNoProduct},
     Body : {NewBuffer(BodyLinkA), NewBuffer(BodyNonLink), NewBuffer("")}]

\* json.Unmarshal(data, &ae) into query.AbstractExists: the arguments of the
\* query and the error text, "" for none.
UnmarshalQuery(data) ==
    CASE data = BodyLinkA ->
            [Args |-> <<[atom |-> "link", Pattern |-> <<"a">>]>>, err |-> ""]
      [] data = BodyLinkB ->
            [Args |-> <<[atom |-> "link", Pattern |-> <<"b">>]>>, err |-> ""]
      [] data = BodyNonLink ->
            [Args |-> <<[atom |-> "pattern", Pattern |-> <<"a">>]>>, err |-> ""]
      [] data = BodyNoArgs -> [Args |-> <<>>, err |-> ""]
      [] data = BodyTwoLinks ->
            [Args |-> <<[atom |-> "link", Pattern |-> <<"a">>],
                        [atom |-> "link", Pattern |-> <<"b">>]>>, err |-> ""]
      [] OTHER -> [Args |-> <<>>, err |-> "unexpected end of JSON input"]

\* shared.ParseProductOrBrowserParams(r.URL.Query()).
ParseProductOrBrowserParams(url) ==
    CASE url = URLNoProduct -> [productSpecs |-> <<>>, err |-> ""]
      [] url = URLBadProduct -> [productSpecs |-> <<>>, err |-> "invalid product spec"]
      [] url = URLChromeOnlyHash ->
            [productSpecs |-> <<>>, err |-> "invalid product spec"]
      [] OTHER -> [productSpecs |-> <<"chrome">>, err |-> ""]

\* What the metadata archive can hold.
Upstreams ==
    { ("t1" :> <<Link(<<"a">>)>>) @@ ("t2" :> <<Link(<<"b">>)>>),
      ("t1" :> <<Link(<<"a", "b">>), Link(<<"b">>)>>) }

\* json.Marshal of a shared.MetadataResults: the entries in the order of
\* their keys.
TestOrder == <<"t1", "t2">>
Marshal(metadata) ==
    LET keys == SelectSeq(TestOrder, LAMBDA t : t \in DOMAIN metadata)
    IN  [i \in 1..Len(keys) |-> <<keys[i], metadata[keys[i]]>>]

\* What a handler wrote: http.Error(w, message, status), or the body with
\* the implicit status 200.
Response(status, body) == [status |-> status, body |-> body]

\* The type assertion on the first argument alone, whatever follows it.
isLinkQueryFirstArg(ae) == Len(ae.Args) >= 1 /\ ae.Args[1].atom = "link"

\* isLinkQuery: the query has one argument and it is a query.AbstractLink.
isLinkQuery(ae) == Len(ae.Args) = 1 /\ ae.Args[1].atom = "link"

\* MetadataHandler.ServeHTTP: the response, the body bytes it read and the
\* number of calls of shared.GetMetadataResponseOnProducts, which returns
\* `archive` unless fetchFails.
ServeHTTP(r, archive, fetchFails) ==
    LET read == ReadAll(r.Body)
        ae == UnmarshalQuery(read.data)
        params == ParseProductOrBrowserParams(r.URL)
        seen == IF r.Method = "POST" THEN Ptr(read.data) ELSE Nil
        Fail(status, message, fetches) ==
            [resp |-> Response(status, message), seen |-> seen, fetches |-> fetches]
    IN
    IF r.Method = "POST" /\ read.err
    THEN Fail(StatusInternalServerError, "Failed to read request body", 0)
    ELSE IF r.Method = "POST" /\ Close(r.Body).err
    THEN Fail(StatusInternalServerError, "Failed to finish reading request body", 0)
    ELSE IF r.Method = "POST" /\ ae.err # ""
    THEN Fail(StatusBadRequest, ae.err, 0)
    ELSE IF r.Method = "POST" /\ ~isLinkQuery(ae)
    THEN Fail(StatusBadRequest,
              "Error from request: non Link search query for api/metadata", 0)
    ELSE IF params.err # ""
    THEN Fail(StatusBadRequest, params.err, 0)
    ELSE IF Len(params.productSpecs) = 0
    THEN Fail(StatusBadRequest, "Missing required 'product' param", 0)
    ELSE IF fetchFails
    THEN Fail(StatusInternalServerError, "fetch failed", 1)
    ELSE LET metadataResponse ==
                IF r.Method = "POST"
                THEN filterMetadata(ae.Args[1], archive)
                ELSE archive
         IN  [resp |-> Response(StatusOK, Marshal(metadataResponse)),
              seen |-> seen, fetches |-> 1]

\* shared.URLAsCacheKey(r): the request URL as a string.
URLAsCacheKey(r) == r.URL

\* cacheKey with the body it read left on the request.
cacheKeyBodyLeftRead(r) ==
    IF r.Method = "GET"
    THEN [key |-> URLAsCacheKey(r), r |-> r, panic |-> FALSE]
    ELSE LET read == ReadAll(r.Body)
         IN  [key |-> r.URL \o "#" \o read.data,
              r |-> [r EXCEPT !.Body = read.body], panic |-> read.err]

\* cacheKey with the URL alone as the key, for every method.
cacheKeyURLOnly(r) ==
    IF r.Method = "GET"
    THEN [key |-> URLAsCacheKey(r), r |-> r, panic |-> FALSE]
    ELSE LET read == ReadAll(r.Body)
         IN  IF read.err
             THEN [key |-> "", r |-> [r EXCEPT !.Body = read.body], panic |-> TRUE]
             ELSE [key |-> r.URL,
                   r |-> [r EXCEPT !.Body = NewBuffer(read.data)], panic |-> FALSE]

\* cacheKey with "%s%s" as the format of the key of a request with a body.
cacheKeyNoSeparator(r) ==
    IF r.Method = "GET"
    THEN [key |-> URLAsCacheKey(r), r |-> r, panic |-> FALSE]
    ELSE LET read == ReadAll(r.Body)
         IN  IF read.err
             THEN [key |-> "", r |-> [r EXCEPT !.Body = read.body], panic |-> TRUE]
             ELSE [key |-> r.URL \o read.data,
                   r |-> [r EXCEPT !.Body = NewBuffer(read.data)], panic |-> FALSE]

\* cacheKey: the key, the request as it leaves r (its Body replaced by a
\* fresh buffer of the bytes read), and whether it panicked on a read error.
cacheKey(r) ==
    IF r.Method = "GET"
    THEN [key |-> URLAsCacheKey(r), r |-> r, panic |-> FALSE]
    ELSE LET read == ReadAll(r.Body)
         IN  IF read.err
             THEN [key |-> "", r |-> [r EXCEPT !.Body = read.body], panic |-> TRUE]
             ELSE [key |-> r.URL \o "#" \o read.data,
                   r |-> [r EXCEPT !.Body = NewBuffer(read.data)], panic |-> FALSE]

\* The arguments apiMetadataHandler gives shared.NewCachingHandler:
\* shared.AlwaysCachable and shared.CacheStatusOK.
isCacheableNever(r) == FALSE
isCacheable(r) == TRUE
shouldCacheAlways(statusCode) == TRUE
shouldCacheBelow500(statusCode) == statusCode < StatusInternalServerError
shouldCache(statusCode) == statusCode = StatusOK

\* shared.NewGZReadWritable: the payload is stored compressed and read back
\* uncompressed.
Gzip(payload) == <<"gzip", payload>>
Gunzip(stored) == stored[2]

\* An entry of shared.NewMemcacheReadWritable(ctx, 5*time.Minute): the stored
\* bytes and the minutes since it was written (now - stored-at). memcache
\* returns it as long as that age is within the expiry; ages past the expiry
\* are all alike, and kept as TTLMinutes + 1. `origin` is the request the
\* payload was computed for: its method, its URL and, for a POST, its query.
Entry(stored, origin) == [stored |-> stored, age |-> 0, origin |-> origin]
Fresh(entry) == entry.age <= TTLMinutes
Identity(r) ==
    [Method |-> r.Method, URL |-> r.URL,
     query |-> IF r.Method = "GET" THEN "" ELSE r.Body.data]

\* How a request was served: the response, the cache it leaves, the key and
\* the body cacheKey left on the request, the entry found under the key,
\* whether that entry was served (hit) or MetadataHandler.ServeHTTP ran
\* (delegated), the body bytes that handler read, the number of fetches of
\* the metadata archive, and whether the response was stored.
Unserved(c, r) ==
    [cache |-> c, resp |-> Response(0, ""), key |-> Nil, afterKey |-> r.Body,
     found |-> Nil, hit |-> FALSE, delegated |-> FALSE, seen |-> Nil,
     fetches |-> 0, stored |-> FALSE, panicked |-> FALSE]

\* The caching handler's miss: the delegate serves the request, the response
\* is stored under the key when shouldCache accepts its status, and returned.
ServeMiss(c, archive, r, k, found, fetchFails) ==
    LET out == ServeHTTP(k.r, archive, fetchFails)
        store == shouldCache(out.resp.status)
    IN  [Unserved(c, r) EXCEPT
            !.cache = IF store
                      THEN (k.key :> Entry(Gzip(out.resp.body), Identity(r))) @@ c
                      ELSE c,
            !.resp = out.resp, !.key = Ptr(k.key), !.afterKey = k.r.Body,
            !.found = found, !.delegated = TRUE, !.seen = out.seen,
            !.fetches = out.fetches, !.stored = store]

\* The caching handler: the key, the lookup, and on a fresh entry the stored
\* payload with status 200. A panic of cacheKey ends the request unanswered.
ServeCached(c, archive, r, fetchFails) ==
    LET k == cacheKey(r)
        found == IF k.key \in DOMAIN c THEN Ptr(c[k.key]) ELSE Nil
    IN  IF k.panic
        THEN [Unserved(c, r) EXCEPT !.afterKey = k.r.Body, !.panicked = TRUE]
        ELSE IF found # Nil /\ Fresh(found[1])
        THEN [Unserved(c, r) EXCEPT
                !.resp = Response(StatusOK, Gunzip(found[1].stored)),
                !.key = Ptr(k.key), !.afterKey = k.r.Body, !.found = found,
                !.hit = TRUE]
        ELSE ServeMiss(c, archive, r, k, found, fetchFails)

\* The caching handler for a request that is not cacheable: the delegate alone.
ServeUncached(c, archive, r, fetchFails) ==
    LET out == ServeHTTP(r, archive, fetchFails)
    IN  [Unserved(c, r) EXCEPT
            !.resp = out.resp, !.delegated = TRUE, !.seen = out.seen,
            !.fetches = out.fetches]

\* apiMetadataHandler serving request r over cache c and the archive.
apiMetadataHandler(c, archive, r, fetchFails) ==
    IF r.Method # "GET" /\ r.Method # "POST"
    THEN [Unserved(c, r) EXCEPT
            !.resp = Response(StatusBadRequest, "Invalid HTTP method")]
    ELSE IF isCacheable(r)
    THEN ServeCached(c, archive, r, fetchFails)
    ELSE ServeUncached(c, archive, r, fetchFails)

\* One request to /api/metadata, served from start to response.
MetadataRequest ==
    /\ \E r \in MetadataRequests, fetchFails \in BOOLEAN :
          cache' = apiMetadataHandler(cache, upstream, r, fetchFails).cache
    /\ UNCHANGED <<upstream, tlast, commits, fin, fout, inflight>>

\* A minute passes: every entry is a minute older.
Tick ==
    /\ \E key \in DOMAIN cache : Fresh(cache[key])
    /\ cache' = [key \in DOMAIN cache |->
                    [cache[key] EXCEPT !.age = IF Fresh(cache[key]) THEN @ + 1 ELSE @]]
    /\ UNCHANGED <<upstream, tlast, commits, fin, fout, inflight>>

\* The metadata archive changes.
UpstreamChange ==
    /\ upstream' \in Upstreams \ {upstream}
    /\ UNCHANGED <<cache, tlast, commits, fin, fout, inflight>>

\* One request to /api/metadata out of KeyRequests, served from start to
\* response.
KeyRequest ==
    /\ \E r \in KeyRequests, fetchFails \in BOOLEAN :
          cache' = apiMetadataHandler(cache, upstream, r, fetchFails).cache
    /\ UNCHANGED <<upstream, tlast, commits, fin, fout, inflight>>

Init ==
    /\ cache = <<>>
    /\ upstream \in Upstreams
    /\ tlast = NoTriage
    /\ commits = <<>>
    /\ fin = NoFilterInput
    /\ fout = NoFilterOutput
    /\ inflight = NoneInFlight

Next == MetadataRequest \/ Tick \/ UpstreamChange

Spec == Init /\ [][Next]_vars

KeysNext == KeyRequest \/ Tick \/ UpstreamChange

SpecKeys == Init /\ [][KeysNext]_vars

(***************************************************************************)
(* SpecRace: two requests with one key served at the same time, each in    *)
(* the caching handler's steps: the key, the lookup, on a miss the         *)
(* delegate, and the store of a response shouldCache accepts. No step      *)
(* waits for the other request.                                            *)
(***************************************************************************)
Procs == {1, 2}

\* The pairs of requests that derive the same key.
RacePairs ==
    {pair \in KeyRequests \X KeyRequests : cacheKey(pair[1]).key = cacheKey(pair[2]).key}

\* A request that has arrived and has no key yet.
Arrived(r) ==
    [pc |-> "key", r |-> r, key |-> "", hit |-> FALSE, resp |-> Response(0, ""),
     fetches |-> 0]

\* An entry written longer ago than the expiry.
Expired(entry) == [entry EXCEPT !.age = TTLMinutes + 1]

RaceInit ==
    /\ upstream \in Upstreams
    /\ \E pair \in RacePairs :
          /\ inflight = [proc |-> <<Arrived(pair[1]), Arrived(pair[2])>>,
                         writes |-> <<>>]
          /\ cache \in {<<>>,
                         cacheKey(pair[1]).key :>
                             Expired(Entry(Gzip(Marshal(<<>>)), Identity(pair[1])))}
    /\ tlast = NoTriage
    /\ commits = <<>>
    /\ fin = NoFilterInput
    /\ fout = NoFilterOutput

\* Request p at step pc, and the step's effect on it.
At(p, pc) == inflight.proc[p].pc = pc
Becomes(p, rec) == inflight' = [inflight EXCEPT !.proc[p] = rec]

\* cacheKey(r) for request p.
RaceKey(p) ==
    /\ At(p, "key")
    /\ LET k == cacheKey(inflight.proc[p].r)
       IN  Becomes(p, [inflight.proc[p] EXCEPT
                          !.pc = IF k.panic THEN "panicked" ELSE "lookup",
                          !.r = k.r, !.key = k.key])
    /\ UNCHANGED <<cache, upstream, tlast, commits, fin, fout>>

\* The lookup of p's key: a fresh entry is the response, otherwise the
\* delegate is to run.
RaceLookup(p) ==
    /\ At(p, "lookup")
    /\ LET me == inflight.proc[p]
       IN  IF me.key \in DOMAIN cache /\ Fresh(cache[me.key])
           THEN Becomes(p, [me EXCEPT
                              !.pc = "done", !.hit = TRUE,
                              !.resp = Response(StatusOK, Gunzip(cache[me.key].stored))])
           ELSE Becomes(p, [me EXCEPT !.pc = "compute"])
    /\ UNCHANGED <<cache, upstream, tlast, commits, fin, fout>>

\* MetadataHandler.ServeHTTP for p; its response is to be stored when
\* shouldCache accepts the status.
RaceCompute(p) ==
    /\ At(p, "compute")
    /\ \E fetchFails \in BOOLEAN :
          LET me == inflight.proc[p]
              out == ServeHTTP(me.r, upstream, fetchFails)
          IN  Becomes(p, [me EXCEPT
                             !.pc = IF shouldCache(out.resp.status)
                                    THEN "store" ELSE "done",
                             !.resp = out.resp, !.fetches = out.fetches])
    /\ UNCHANGED <<cache, upstream, tlast, commits, fin, fout>>

\* The store of p's response under p's key, whatever is there.
RaceStore(p) ==
    /\ At(p, "store")
    /\ LET me == inflight.proc[p]
       IN  /\ cache' = (me.key :> Entry(Gzip(me.resp.body), Identity(me.r))) @@ cache
           /\ inflight' = [inflight EXCEPT !.proc[p].pc = "done",
                                           !.writes = Append(@, p)]
    /\ UNCHANGED <<upstream, tlast, commits, fin, fout>>

RaceStep(p) == RaceKey(p) \/ RaceLookup(p) \/ RaceCompute(p) \/ RaceStore(p)

RaceNext == (\E p \in Procs : RaceStep(p)) \/ UpstreamChange

SpecRace == RaceInit /\ [][RaceNext]_vars

(***************************************************************************)
(* Properties of apiMetadataHandler: in every reachable state, how the     *)
(* next request, whichever it is, is served.                               *)
(***************************************************************************)
\* How request r is served in the current state.
Served(r, fetchFails) == apiMetadataHandler(cache, upstream, r, fetchFails)

\* Request r as cacheKey hands it on, and the request an entry was computed for.
HandedOn(r, o) == [r EXCEPT !.Body = o.afterKey]
RequestOf(origin) ==
    [Method |-> origin.Method, URL |-> origin.URL, Body |-> NewBuffer(origin.query)]

\* C4: a response is stored only when the delegate's status is 200. A request
\* whose computation ends with another status (400, 500) leaves the cache as
\* it was and gets that error response, and the same request served right
\* after it is computed again, not answered from the cache.
C4_OnlyStatusOKStored ==
    \A r \in MetadataRequests, fetchFails \in BOOLEAN :
        LET o == Served(r, fetchFails) IN
        /\ (o.stored \/ o.cache # cache) => (o.delegated /\ o.resp.status = StatusOK)
        /\ (o.delegated /\ o.resp.status # StatusOK) =>
              /\ o.cache = cache
              /\ o.resp.status \in {StatusBadRequest, StatusInternalServerError}
              /\ o.resp = ServeHTTP(HandedOn(r, o), upstream, fetchFails).resp
              /\ \A again \in BOOLEAN :
                    LET o2 == apiMetadataHandler(o.cache, upstream, r, again)
                    IN  ~o2.hit /\ o2.delegated

\* An expired entry is in the cache, the recomputation fails at the fetch,
\* and the entry stays as it is.
C4_Witness ==
    \E r \in MetadataRequests :
        LET o == Served(r, TRUE) IN
        /\ o.found # Nil
        /\ o.delegated
        /\ o.fetches = 1
        /\ o.resp.status = StatusInternalServerError
        /\ o.cache = cache

\* C5: a GET served with status 200 over an empty cache fetches the metadata
\* once and stores its response under its key; a request whose key holds an
\* entry written at most 5 minutes ago is answered 200 with the stored
\* payload, which is the very response computed for the request that stored
\* it, without a fetch and whatever the archive holds by now.
C5_FetchOnceThenServeStored ==
    \A r \in MetadataRequests, fetchFails \in BOOLEAN :
        LET o == Served(r, fetchFails) IN
        /\ (cache = <<>> /\ r.Method = "GET" /\ o.resp.status = StatusOK) =>
              /\ o.fetches = 1
              /\ o.stored
              /\ o.cache = (r.URL :> Entry(Gzip(o.resp.body), Identity(r)))
        /\ (o.found # Nil /\ o.found[1].age <= 5) =>
              /\ o.hit
              /\ o.fetches = 0
              /\ ~o.delegated
              /\ o.resp = Response(StatusOK, Gunzip(o.found[1].stored))
              /\ \E archive \in Upstreams :
                    o.resp = ServeHTTP(RequestOf(o.found[1].origin), archive, FALSE).resp
              /\ o.cache = cache

\* A GET is answered from an entry in its fifth minute with a payload that
\* is no longer what the archive holds.
C5_Witness ==
    \E r \in MetadataRequests :
        LET o == Served(r, FALSE) IN
        /\ r.Method = "GET"
        /\ o.hit
        /\ o.found[1].age = 5
        /\ o.found[1].origin = Identity(r)
        /\ o.resp.body # Marshal(upstream)

\* C6: an entry is served iff it was written at most 5 minutes ago. A request
\* whose key holds an older entry is computed anew and answered with the
\* computed response; when it is the request the entry was computed for, the
\* metadata is fetched once and, the fetch succeeding, the answer is 200 and
\* stored with its age starting again from 0.
C6_FreshIffWithinFiveMinutes ==
    \A r \in MetadataRequests, fetchFails \in BOOLEAN :
        LET o == Served(r, fetchFails) IN
        o.found # Nil =>
            /\ o.hit <=> o.found[1].age <= 5
            /\ o.hit => (o.fetches = 0 /\ o.cache = cache)
            /\ ~o.hit =>
                  /\ o.delegated
                  /\ o.resp = ServeHTTP(HandedOn(r, o), upstream, fetchFails).resp
                  /\ o.found[1].origin = Identity(r) =>
                        /\ o.fetches = 1
                        /\ ~fetchFails =>
                              /\ o.resp.status = StatusOK
                              /\ o.cache[o.key[1]] =
                                    Entry(Gzip(o.resp.body), Identity(r))
                              /\ o.cache[o.key[1]].age = 0

\* An entry written more than 5 minutes ago is replaced by a newly computed
\* one with another payload, while another entry is in its fifth minute.
C6_Witness ==
    \E r \in MetadataRequests :
        LET o == Served(r, FALSE) IN
        /\ o.found # Nil
        /\ o.found[1].age > 5
        /\ o.stored
        /\ o.cache[o.key[1]].age = 0
        /\ o.cache[o.key[1]].stored # o.found[1].stored
        /\ \E key \in DOMAIN cache : cache[key].age = 5

\* C7: the key of a POST is its URL, "#", and its body, so two POSTs to one
\* URL have the same key iff their bodies are the same bytes; and a POST is
\* never answered from an entry computed for a POST to the same URL with
\* another body.
C7_PostKeyHoldsBody ==
    /\ \A r \in MetadataRequests, fetchFails \in BOOLEAN :
          LET o == Served(r, fetchFails) IN
          (r.Method = "POST" /\ ~o.panicked) =>
              /\ o.key = Ptr(r.URL \o "#" \o r.Body.data)
              /\ (o.hit /\ o.found[1].origin.Method = "POST"
                        /\ o.found[1].origin.URL = r.URL) =>
                    o.found[1].origin.query = r.Body.data
    /\ \A r1 \in MetadataRequests, r2 \in MetadataRequests :
          (/\ r1.Method = "POST" /\ r2.Method = "POST"
           /\ r1.URL = r2.URL
           /\ ~cacheKey(r1).panic /\ ~cacheKey(r2).panic) =>
              (cacheKey(r1).key = cacheKey(r2).key <=> r1.Body.data = r2.Body.data)

\* Two POSTs to one URL with different bodies are both answered from the
\* cache, each with its own payload.
C7_Witness ==
    \E r1 \in MetadataRequests, r2 \in MetadataRequests :
        LET o1 == Served(r1, FALSE)
            o2 == Served(r2, FALSE)
        IN  /\ r1.Method = "POST" /\ r2.Method = "POST"
            /\ r1.URL = r2.URL
            /\ r1.Body.data # r2.Body.data
            /\ o1.hit /\ o2.hit
            /\ o1.found[1].origin = Identity(r1)
            /\ o2.found[1].origin = Identity(r2)
            /\ o1.resp.body # o2.resp.body

\* C8: cacheKey leaves on a request that is not a GET a body that is unread
\* and yields the bytes that went into the key, and those are the bytes
\* MetadataHandler.ServeHTTP reads; it leaves the body of a GET as it is.
C8_BodyReadableAfterCacheKey ==
    /\ \A r \in MetadataRequests :
          LET k == cacheKey(r) IN
          /\ r.Method = "GET" => k.r = r
          /\ (r.Method # "GET" /\ ~k.panic) =>
                /\ ~k.r.Body.consumed
                /\ ReadAll(k.r.Body) = [ReadAll(r.Body) EXCEPT !.err = FALSE]
                /\ k.key = r.URL \o "#" \o ReadAll(k.r.Body).data
    /\ \A r \in MetadataRequests, fetchFails \in BOOLEAN :
          LET o == Served(r, fetchFails) IN
          (o.delegated /\ r.Method # "GET") =>
              /\ o.seen = Ptr(r.Body.data)
              /\ o.key = Ptr(r.URL \o "#" \o o.seen[1])

\* A POST with a link query was keyed and then served by the handler, which
\* read the query from the body: its response is in the cache.
C8_Witness ==
    \E r \in MetadataRequests :
        LET o == Served(r, FALSE) IN
        /\ r.Method = "POST"
        /\ r.Body.data = BodyLinkB
        /\ o.hit
        /\ o.found[1].origin = Identity(r)
        /\ o.key = Ptr(r.URL \o "#" \o BodyLinkB)

\* C11: MetadataHandler.ServeHTTP, serving a POST whose body it has read,
\* fetches (and filters) only if the body parsed into a query with exactly
\* one argument, a link atom. A body that does not parse is answered 400 with
\* the parse error; a parsed query with no argument, more than one argument
\* or one argument that is no link atom is answered 400 with the "non Link
\* search query" message, which is not the parse error; neither fetches.
C11_PostNeedsOneLinkArgument ==
    \A r \in MetadataRequests, fetchFails \in BOOLEAN :
        LET o == Served(r, fetchFails)
            ae == UnmarshalQuery(r.Body.data)
            nonLink == "Error from request: non Link search query for api/metadata"
        IN  (r.Method = "POST" /\ o.delegated) =>
              /\ (o.fetches > 0 \/ o.resp.status = StatusOK) =>
                    /\ ae.err = ""
                    /\ Len(ae.Args) = 1
                    /\ ae.Args[1].atom = "link"
              /\ ae.err # "" =>
                    /\ o.resp = Response(StatusBadRequest, ae.err)
                    /\ o.resp.body # nonLink
                    /\ o.fetches = 0
              /\ (/\ ae.err = ""
                  /\ \/ Len(ae.Args) = 0
                     \/ Len(ae.Args) > 1
                     \/ Len(ae.Args) = 1 /\ ae.Args[1].atom # "link") =>
                    /\ o.resp = Response(StatusBadRequest, nonLink)
                    /\ o.fetches = 0

\* A query with two link arguments is refused without a fetch while the
\* response to a query with one of them is in the cache.
C11_Witness ==
    \E r \in MetadataRequests :
        LET o == Served(r, FALSE) IN
        /\ r.Method = "POST"
        /\ r.Body.data = BodyTwoLinks
        /\ o.delegated
        /\ o.resp.status = StatusBadRequest
        /\ o.fetches = 0
        /\ (r.URL \o "#" \o BodyLinkA) \in DOMAIN cache

\* C12: a GET or POST whose product parameters do not parse, or parse to no
\* product, is answered 400 (with "Missing required 'product' param" when
\* the list is empty and the request got as far as the products), fetches
\* nothing and leaves the cache as it was.
C12_BadProductAnswered400 ==
    \A r \in KeyRequests, fetchFails \in BOOLEAN :
        LET o == Served(r, fetchFails)
            params == ParseProductOrBrowserParams(r.URL)
            ae == UnmarshalQuery(r.Body.data)
        IN  (/\ r.Method \in {"GET", "POST"}
             /\ params.err # "" \/ Len(params.productSpecs) = 0) =>
              /\ o.resp.status = StatusBadRequest
              /\ (/\ params.err = ""
                  /\ r.Method = "GET" \/ (ae.err = "" /\ isLinkQuery(ae))) =>
                    o.resp.body = "Missing required 'product' param"
              /\ o.fetches = 0
              /\ ~o.stored
              /\ o.cache = cache

\* C18: a GET and a POST never derive the same key, so no request is
\* answered from an entry computed for a request of the other method.
C18_GetAndPostKeysNeverCollide ==
    /\ \A r1 \in KeyRequests, r2 \in KeyRequests :
          (r1.Method = "GET" /\ r2.Method = "POST") =>
              cacheKey(r1).key # cacheKey(r2).key
    /\ \A r \in KeyRequests, fetchFails \in BOOLEAN :
          LET o == Served(r, fetchFails) IN
          o.hit => o.found[1].origin.Method = r.Method

\* Both requests of SpecRace have their response.
RaceDone == \A p \in Procs : At(p, "done")
Writers == {inflight.writes[i] : i \in 1..Len(inflight.writes)}

\* C15: of two requests with one key served at the same time over a cache
\* without a fresh entry for the key, neither waits for the other: a request
\* that has no response yet can always take its next step, and ends with a
\* response. When both have ended, the requests that computed a 200 are the
\* ones that wrote; if any wrote, the entry under the key is what the last
\* writer wrote, the 200 response it computed with one fetch; if none
\* wrote, there is no fresh entry still. (That both may miss and both fetch
\* is C15_Witness.)
C15_RaceLastWriterWins ==
    /\ \A p \in Procs :
          /\ ~At(p, "done") => ENABLED RaceStep(p)
          /\ At(p, "done") =>
                inflight.proc[p].resp.status \in
                    {StatusOK, StatusBadRequest, StatusInternalServerError}
    /\ RaceDone =>
          LET key == inflight.proc[1].key
              writes == inflight.writes
          IN  /\ inflight.proc[2].key = key
              /\ \A p \in Procs :
                    p \in Writers <=>
                        (~inflight.proc[p].hit /\ inflight.proc[p].resp.status = StatusOK)
              /\ writes # <<>> =>
                    LET last == inflight.proc[writes[Len(writes)]]
                    IN  /\ cache[key] = Entry(Gzip(last.resp.body), Identity(last.r))
                        /\ last.resp.status = StatusOK
                        /\ last.fetches = 1
                        /\ ~last.hit
              /\ writes = <<>> => (key \in DOMAIN cache => ~Fresh(cache[key]))

\* The same request twice: both missed, both fetched, the archive changed
\* between the fetches, both wrote, and the entry is the second writer's.
C15_Witness ==
    /\ RaceDone
    /\ inflight.proc[1].r = inflight.proc[2].r
    /\ \A p \in Procs : ~inflight.proc[p].hit /\ inflight.proc[p].fetches = 1
    /\ Len(inflight.writes) = 2
    /\ inflight.proc[1].resp.body # inflight.proc[2].resp.body
    /\ cache[inflight.proc[1].key].stored = Gzip(inflight.proc[inflight.writes[2]].resp.body)

\* C20: in every reachable state, the entry under key k is the body of a
\* 200 response of MetadataHandler.ServeHTTP to a request that derives k
\* (its URL for a GET, its URL, "#" and its body for a POST), computed over
\* what the archive held then; so a response served from the cache is a
\* response the handler produced for a request with the same key at most 5
\* minutes ago.
C20_CacheHoldsComputedResponses ==
    /\ \A k \in DOMAIN cache :
          LET origin == cache[k].origin
              r0 == RequestOf(origin)
          IN  /\ origin.Method \in {"GET", "POST"}
              /\ k = IF origin.Method = "GET" THEN origin.URL
                     ELSE origin.URL \o "#" \o origin.query
              /\ cacheKey(r0).key = k
              /\ \E archive \in Upstreams :
                    ServeHTTP(cacheKey(r0).r, archive, FALSE).resp =
                        Response(StatusOK, Gunzip(cache[k].stored))
    /\ \A r \in MetadataRequests, fetchFails \in BOOLEAN :
          LET o == Served(r, fetchFails) IN
          o.hit =>
              LET r0 == RequestOf(o.found[1].origin)
              IN  /\ o.found[1].age <= 5
                  /\ cacheKey(r0).key = cacheKey(r).key
                  /\ o.resp.status = StatusOK
                  /\ \E archive \in Upstreams :
                        ServeHTTP(cacheKey(r0).r, archive, FALSE).resp = o.resp

\* A POST is answered from an entry in its fifth minute that was computed
\* for a GET with the same key, while the archive holds something else.
C20_Witness ==
    \E r \in MetadataRequests :
        LET o == Served(r, FALSE) IN
        /\ r.Method = "POST"
        /\ o.hit
        /\ o.found[1].age = 5
        /\ o.found[1].origin.Method = "GET"
        /\ o.resp.body # Marshal(upstream)
        /\ Cardinality(DOMAIN cache) = 3

TriageInit ==
    /\ cache = <<>>
    /\ upstream = <<>>
    /\ tlast = NoTriage
    /\ commits = <<>>
    /\ fin = NoFilterInput
    /\ fout = NoFilterOutput
    /\ inflight = NoneInFlight

TriageNext == TriageRequest

SpecTriage == TriageInit /\ [][TriageNext]_vars

\* Both handlers serving requests, one at a time.
ServeNext == KeyRequest \/ TriageRequest

SpecServe == Init /\ [][ServeNext]_vars

(***************************************************************************)
(* Properties of the triage handler, over the last request served.         *)
(***************************************************************************)
\* The results the last request got from its calls of operation op.
ResultsOf(op) ==
    {tlast.calls[i].result : i \in {j \in 1..Len(tlast.calls) : tlast.calls[j].op = op}}
Invoked(op) == ResultsOf(op) # {}

\* The request passed the method and content-type checks and its body was
\* read and closed without error.
BodyRead ==
    /\ tlast.handled
    /\ tlast.r.Method = "PATCH"
    /\ tlast.r.ContentType = "application/json"
    /\ ~tlast.r.Body.readFails
    /\ ~tlast.r.Body.closeFails
BodyDecoded == BodyRead /\ Unmarshal(tlast.r.Body.data).err = ""

\* C1: tm.triage is invoked in a request only if, in that request, the method
\* was PATCH, the content type application/json, the body read and decoded,
\* the session user and the stored token both present, the token check
\* answered 200 and the membership check answered 200; in every other
\* request tm.triage is not invoked.
C1_TriageOnlyWhenAuthorized ==
    (Invoked("triage") \/ tlast.submit # Nil) =>
        /\ BodyDecoded
        /\ tlast.session # Nil
        /\ tlast.session[1].user # Nil
        /\ tlast.session[1].token # Nil
        /\ ResultsOf("Authorizations.Check") = {"200"}
        /\ ResultsOf("Organizations.GetOrgMembership") = {"200"}

C1_Witness ==
    /\ Invoked("triage")
    /\ tlast.status = StatusCreated
    /\ Len(commits) = 1

\* C2: a PATCH request with content type application/json whose body is not
\* well-formed JSON makes no call of any collaborator (no token check, no
\* membership check, no submit-change; the session is not even looked up),
\* and once its body is read it is answered 400 with the parse failure.
C2_MalformedBodyRejectedBeforeRemoteCalls ==
    (/\ tlast.handled
     /\ tlast.r.Method = "PATCH"
     /\ tlast.r.ContentType = "application/json"
     /\ Unmarshal(tlast.r.Body.data).err # "") =>
        /\ tlast.calls = <<>>
        /\ tlast.submit = Nil
        /\ BodyRead =>
              /\ tlast.status = StatusBadRequest
              /\ tlast.message =
                    "Failed to parse JSON: " \o Unmarshal(tlast.r.Body.data).err

C2_Witness ==
    /\ BodyRead
    /\ tlast.r.Body.data = "x"
    /\ tlast.status = StatusBadRequest

\* C3: for a request that passed the method, content-type and decode steps:
\* with the session user or the stored token absent the answer is 400 "User
\* is not logged in" and no token check is made; with both present and the
\* token check answering a status other than 200, the answer is 400 "User
\* token invalid; please log in again. " and neither the membership check nor
\* submit-change is made.
C3_SessionAndTokenRejections ==
    (BodyDecoded /\ tlast.session # Nil) =>
        /\ (tlast.session[1].user = Nil \/ tlast.session[1].token = Nil) =>
              /\ tlast.status = StatusBadRequest
              /\ tlast.message = "User is not logged in"
              /\ ~Invoked("Authorizations.Check")
        /\ (ResultsOf("Authorizations.Check") \cap {"200", "err"} = {}
            /\ Invoked("Authorizations.Check")) =>
              /\ tlast.session[1].user # Nil
              /\ tlast.session[1].token # Nil
              /\ tlast.status = StatusBadRequest
              /\ tlast.message = "User token invalid; please log in again. "
              /\ ~Invoked("Organizations.GetOrgMembership")
              /\ ~Invoked("triage")
              /\ tlast.submit = Nil

C3_Witness ==
    /\ BodyDecoded
    /\ ResultsOf("Authorizations.Check") = {"204"}
    /\ tlast.status = StatusBadRequest

\* The calls the last request made with the credential cred.
OpsWith(cred) ==
    {tlast.calls[i].op : i \in {j \in 1..Len(tlast.calls) : tlast.calls[j].cred = cred}}

\* C13: whenever tm.triage is invoked, the client it writes with is the bot's
\* (the secret "github-wpt-fyi-bot-token"), not the client made of the user's
\* stored token, and the author it records is the handle and e-mail address
\* of the session user whose token passed the token check and the membership
\* check of this very request; the user's token is used for those two checks
\* and for nothing else. Every change committed was written that way.
C13_BotWritesUserIsAuthor ==
    /\ tlast.submit # Nil =>
          LET user == tlast.session[1].user[1]
              token == tlast.session[1].token[1]
              submit == tlast.submit[1]
          IN  /\ submit.cred = BotToken
              /\ submit.cred # token
              /\ submit.authorName = user.GitHubHandle
              /\ submit.authorEmail = user.GithuhEmail
              /\ ResultsOf("Authorizations.Check") = {"200"}
              /\ ResultsOf("Organizations.GetOrgMembership") = {"200"}
              /\ OpsWith(token) =
                    {"Authorizations.Check", "Organizations.GetOrgMembership"}
              /\ OpsWith(BotToken) = {"triage"}
              /\ tlast.status = StatusCreated => commits[Len(commits)] = submit
    /\ tlast.handled /\ tlast.session # Nil /\ tlast.session[1].token # Nil =>
          OpsWith(tlast.session[1].token[1]) \subseteq
              {"Authorizations.Check", "Organizations.GetOrgMembership"}
    /\ \A i \in 1..Len(commits) :
          /\ commits[i].cred = BotToken
          /\ \E session \in Sessions :
                /\ session.user # Nil /\ session.token # Nil
                /\ commits[i].cred # session.token[1]
                /\ commits[i].authorName = session.user[1].GitHubHandle
                /\ commits[i].authorEmail = session.user[1].GithuhEmail

\* Two changes were committed, written by the bot for two different users.
C13_Witness ==
    /\ Len(commits) = 2
    /\ commits[1].authorName # commits[2].authorName
    /\ tlast.submit = Ptr(commits[2])
    /\ tlast.session[1].user = Ptr(Bob)

\* C14: a triage request is answered 201 with an empty body iff tm.triage was
\* invoked and returned no error. When tm.triage returns an error the answer
\* is 500 "Unable to triage metadata: ..."; when getWPTFYIGithubBot fails the
\* answer is 500 "Unable to get Github Client: ...", another message, and
\* tm.triage is not invoked.
C14_CreatedIffTriageSucceeded ==
    tlast.handled =>
        /\ tlast.status = StatusCreated <=> ResultsOf("triage") = {"ok"}
        /\ tlast.status = StatusCreated => tlast.message = ""
        /\ ResultsOf("triage") = {"err"} =>
              /\ tlast.status = StatusInternalServerError
              /\ tlast.message = "Unable to triage metadata: err"
        /\ ResultsOf("getWPTFYIGithubBot") = {"err"} =>
              /\ tlast.status = StatusInternalServerError
              /\ tlast.message = "Unable to get Github Client: err"
              /\ tlast.message # "Unable to triage metadata: err"
              /\ ~Invoked("triage")
              /\ tlast.submit = Nil

\* A change was committed, and the next one failed in tm.triage.
C14_Witness ==
    /\ Len(commits) = 1
    /\ ResultsOf("triage") = {"err"}
    /\ tlast.status = StatusInternalServerError
    /\ tlast.submit # Nil

\* The operations of the collaborators of the triage handler.
TriageOps ==
    {"GetUserFromCookie", "GetSecret", "Authorizations.Check",
     "Organizations.GetOrgMembership", "getWPTFYIGithubBot", "triage"}

\* C16: nothing is retried. A triage request calls each operation (session
\* lookup, secret lookup, token check, membership check, bot client, triage)
\* at most once, and a call that returns an error is the last call of the
\* request, which is answered 500. A request to /api/metadata fetches the
\* metadata at most once, and when the fetch fails it is answered 500 and
\* nothing is stored.
C16_NoRetries ==
    /\ tlast.handled =>
          /\ \A i \in 1..Len(tlast.calls) :
                /\ tlast.calls[i].op \in TriageOps
                /\ \A j \in 1..Len(tlast.calls) :
                      tlast.calls[i].op = tlast.calls[j].op => i = j
                /\ tlast.calls[i].result = "err" =>
                      /\ i = Len(tlast.calls)
                      /\ tlast.status = StatusInternalServerError
    /\ \A r \in KeyRequests, fetchFails \in BOOLEAN :
          LET o == Served(r, fetchFails) IN
          /\ o.fetches <= 1
          /\ (o.fetches = 1 /\ fetchFails) =>
                /\ o.resp.status = StatusInternalServerError
                /\ ~o.stored
                /\ o.cache = cache

\* The membership check of a triage request failed after three calls that
\* did not, and a request to /api/metadata finds an entry in the cache.
C16_Witness ==
    /\ Len(tlast.calls) = 4
    /\ ResultsOf("Organizations.GetOrgMembership") = {"err"}
    /\ tlast.status = StatusInternalServerError
    /\ \E r \in KeyRequests : Served(r, TRUE).hit
    /\ \E r \in KeyRequests : Served(r, TRUE).fetches = 1

\* The last request was answered with this status and message after exactly
\* these calls, in this order.
Answered(status, message, ops) ==
    /\ tlast.status = status
    /\ tlast.message = message
    /\ [i \in 1..Len(tlast.calls) |-> tlast.calls[i].op] = ops

\* C17: the answer is that of the first step that fails, in the order method,
\* content type, body read and decode, session, token check, membership
\* check, whatever else is wrong with the request, and no later step runs: a
\* request that is not a PATCH gets the invalid-method 400 whatever its
\* content type and body; a PATCH with another content type gets the
\* content-type 400 whatever its body; and so on down to the membership check.
C17_FirstFailingStepDecides ==
    tlast.handled =>
        LET r == tlast.r
            s1 == r.Method = "PATCH"
            s2 == s1 /\ r.ContentType = "application/json"
            s3 == s2 /\ ~r.Body.readFails /\ ~r.Body.closeFails
                     /\ Unmarshal(r.Body.data).err = ""
            s4 == s3 /\ tlast.session[1].user # Nil /\ tlast.session[1].token # Nil
            s5 == s4 /\ ResultsOf("Authorizations.Check") = {"200"}
            untilCheck == <<"GetUserFromCookie", "GetSecret", "Authorizations.Check">>
        IN  /\ ~s1 => Answered(StatusBadRequest,
                               "Invalid HTTP method; only accpet PATCH request", <<>>)
            /\ (s1 /\ ~s2) =>
                  Answered(StatusBadRequest,
                           "Invalid content-type: %s" \o r.ContentType, <<>>)
            /\ (s2 /\ r.Body.readFails) =>
                  Answered(StatusInternalServerError,
                           "Failed to read PATCH request body", <<>>)
            /\ (s2 /\ ~r.Body.readFails /\ r.Body.closeFails) =>
                  Answered(StatusInternalServerError,
                           "Failed to finish reading request body", <<>>)
            /\ (s2 /\ ~r.Body.readFails /\ ~r.Body.closeFails /\ ~s3) =>
                  Answered(StatusBadRequest,
                           "Failed to parse JSON: " \o Unmarshal(r.Body.data).err, <<>>)
            /\ ~s3 => tlast.session = Nil
            /\ s3 => tlast.session # Nil
            /\ (s3 /\ ~s4) =>
                  Answered(StatusBadRequest, "User is not logged in",
                           <<"GetUserFromCookie">>)
            /\ (s4 /\ ResultsOf("Authorizations.Check") \cap {"204", "404"} # {}) =>
                  Answered(StatusBadRequest, "User token invalid; please log in again. ",
                           untilCheck)
            /\ (s5 /\ ResultsOf("Organizations.GetOrgMembership")
                           \cap {"204", "404"} # {}) =>
                  Answered(StatusBadRequest, "User is not a part of web-platform-tests",
                           untilCheck \o <<"Organizations.GetOrgMembership">>)
            /\ Invoked("Organizations.GetOrgMembership") => s5
            /\ Invoked("Authorizations.Check") => s4

\* A request that is no PATCH, has another content type and a body that
\* cannot be read is answered for its method.
C17_Witness ==
    /\ tlast.handled
    /\ tlast.r.Method = "POST"
    /\ tlast.r.ContentType = "text/plain"
    /\ tlast.r.Body.readFails
    /\ tlast.r.Body.data = "x"
    /\ tlast.status = StatusBadRequest
    /\ tlast.message = "Invalid HTTP method; only accpet PATCH request"

\* C19: the secret "github-oauth-client-id" is looked up after the session
\* lookup returned a user and a token, and before the token check, for every
\* logged-in user whose request got that far. When the lookup fails the
\* answer is 500 and neither the token check nor the membership check nor
\* tm.triage is invoked: the user is refused with no check of the token made.
C19_SecretLookupBeforeTokenCheck ==
    tlast.handled =>
        /\ (BodyDecoded /\ tlast.session[1].user # Nil /\ tlast.session[1].token # Nil)
              <=> Invoked("GetSecret")
        /\ Invoked("GetSecret") =>
              /\ tlast.calls[1].op = "GetUserFromCookie"
              /\ tlast.calls[1].result = "present"
              /\ tlast.calls[2].op = "GetSecret"
        /\ Invoked("Authorizations.Check") =>
              /\ tlast.calls[2] = Call("GetSecret", "", "ok")
              /\ tlast.calls[3].op = "Authorizations.Check"
        /\ ResultsOf("GetSecret") = {"err"} =>
              /\ Answered(StatusInternalServerError,
                          "Failed to get github-oauth-client-id secret: err",
                          <<"GetUserFromCookie", "GetSecret">>)
              /\ ~Invoked("Authorizations.Check")
              /\ ~Invoked("Organizations.GetOrgMembership")
              /\ ~Invoked("triage")
              /\ tlast.submit = Nil

\* A user whose change was committed before is refused at the secret lookup.
C19_Witness ==
    /\ ResultsOf("GetSecret") = {"err"}
    /\ tlast.session[1].user = Ptr(Alice)
    /\ tlast.status = StatusInternalServerError
    /\ Len(commits) = 1
    /\ commits[1].authorName = "alice"


(***************************************************************************)
(* SpecFilter: filterMetadata applied to every bounded input.              *)
(***************************************************************************)
FilterInit ==
    /\ fin \in {[linkQuery |-> [Pattern |-> p], metadata |-> m] :
                    p \in Strs(MaxUrlLen), m \in AllMetadata}
    /\ fout = NoFilterOutput
    /\ inflight = NoneInFlight
    /\ cache = <<>>
    /\ upstream = <<>>
    /\ tlast = NoTriage
    /\ commits = <<>>

\* filterMetadata applied to the input, and applied once more to its result
\* with the same link query.
ApplyFilter ==
    /\ ~fout.applied
    /\ LET res == filterMetadata(fin.linkQuery, fin.metadata)
       IN  fout' = [applied |-> TRUE, res |-> res,
                    again |-> filterMetadata(fin.linkQuery, res)]
    /\ UNCHANGED <<cache, upstream, fin, tlast, commits, inflight>>

FilterNext == ApplyFilter

SpecFilter == FilterInit /\ [][FilterNext]_vars

(***************************************************************************)
(* Properties of filterMetadata.                                           *)
(***************************************************************************)
\* p occurs in s: s is some prefix of s, then p, then some suffix of s.
IsSubstring(p, s) ==
    \E i \in 0..Len(s), j \in 0..Len(s) :
        s = SubSeq(s, 1, i) \o p \o SubSeq(s, j + 1, Len(s))

\* The tests of m one of whose links has a URL in which p occurs.
TestsLinking(p, m) ==
    {t \in DOMAIN m : \E k \in 1..Len(m[t]) : IsSubstring(p, m[t][k].URL)}

\* C9: filterMetadata(p, m) holds a test iff the test is in m and one of its
\* links has a URL in which p occurs; each test kept maps to its whole link
\* list of m, in m's order; the empty pattern keeps exactly the tests whose
\* link list is not empty.
C9_FilterKeepsExactlyLinkingTests ==
    fout.applied =>
        LET p == fin.linkQuery.Pattern
            m == fin.metadata
        IN  /\ DOMAIN fout.res = TestsLinking(p, m)
            /\ \A t \in DOMAIN fout.res : fout.res[t] = m[t]
            /\ p = <<>> => DOMAIN fout.res = {t \in DOMAIN m : m[t] # <<>>}

\* A test is kept with a link that does not match, and another is dropped.
C9_Witness ==
    /\ fout.applied
    /\ fin.linkQuery.Pattern # <<>>
    /\ DOMAIN fout.res # DOMAIN fin.metadata
    /\ \E t \in DOMAIN fout.res :
          /\ Len(fout.res[t]) = 2
          /\ ~IsSubstring(fin.linkQuery.Pattern, fout.res[t][1].URL)

\* C10: filterMetadata is idempotent: filtering its own result again with
\* the same pattern yields that result.
C10_FilterIdempotent ==
    fout.applied => fout.again = fout.res

\* The filter dropped a test and kept one, so the second pass had work to do.
C10_Witness ==
    /\ fout.applied
    /\ fout.res # fin.metadata
    /\ DOMAIN fout.res # {}
    /\ fout.again = fout.res

=============================================================================
